---------------------------- MODULE Spec2Model ----------------------------
(***************************************************************************)
(* A model of IB-sampling's dataset preparation:                           *)
(*   - src/prepare_dataset.py: ensure_size, generate_indices, save_patch,  *)
(*     process_case (positive patches per connected component, negative    *)
(*     sliding-window patches);                                            *)
(*   - src/ib_sampling/utils.py: train_validate_dicts (patient-level       *)
(*     cross-validation folds derived from the patch file names).          *)
(*                                                                         *)
(* Python strings are sequences of one-character strings, so that          *)
(* formatting, splitting, replacing and sorting are computed character by  *)
(* character.  Python lists are sequences (1-based here, 0-based there).   *)
(***************************************************************************)
EXTENDS Integers, Sequences, FiniteSets, TLC

VARIABLES
    lesion_files,      \* names of the files in output_dir/lesion_patches
    background_files,  \* names of the files in output_dir/background_patches
    produced,          \* case names for which save_patch has written a patch
    rng,               \* numpy's global generator: outputs drawn since seed(42)
    args_max_splits,   \* args.max_splits of the process's command line
    runs,              \* results of the train_validate_dicts calls made so far
    es_in, es_out,     \* ensure_size: arguments and returned interval
    gi_in, gi_out,     \* generate_indices: arguments and returned starts
    pc,                \* process_case: position in the function
    case_listing,      \* process_case: file names found in case_dir
    modalities_filter, \* process_case: allow-list of modalities, or None
    modalities,        \* process_case: names of the loaded modality volumes
    shape,             \* process_case: label.shape
    label,             \* process_case: the non-zero voxels of the label volume
    patch_size,        \* process_case: patch size per axis
    stride,            \* process_case: stride per axis
    comp,              \* process_case: next connected component to process
    win,               \* process_case: position in the sliding-window loops
    pos_idx, neg_idx,  \* process_case: patch counters
    patches            \* process_case: the patches handed to save_patch

splitVars == <<lesion_files, background_files, produced, rng, args_max_splits,
               runs>>
pureVars == <<es_in, es_out, gi_in, gi_out>>
caseVars == <<pc, case_listing, modalities_filter, modalities, shape, label,
              patch_size, stride, comp, win, pos_idx, neg_idx, patches>>
vars == <<splitVars, pureVars, caseVars>>

-----------------------------------------------------------------------------
(* Bounds of the model.                                                    *)

MaxPatients == 5     \* patient cases in the patch corpus: 0..MaxPatients
MaxSplits == 3       \* args.max_splits ranges over 1..MaxSplits
MaxSplitIndex == 4   \* args.split ranges over -1..MaxSplitIndex
MaxPriorDraws == 1   \* generator outputs drawn before the first call
MaxCorpusFiles == 3  \* prepare_dataset stops adding patches at this many files
MaxPatchIndex == 1   \* patch_idx ranges over 0..MaxPatchIndex
MaxDim == 6          \* ensure_size, generate_indices: axis extent 1..MaxDim
MaxMinSize == 8      \* ensure_size: min_size ranges over 1..MaxMinSize
MaxStride == 4       \* generate_indices: stride ranges over 1..MaxStride
MaxExtent == 24      \* process_case: extent of the long axis of the volume
MaxLesionVoxels == 2 \* process_case: non-zero voxels in the label volume

-----------------------------------------------------------------------------
(* Strings.                                                                *)

Min(a, b) == IF a < b THEN a ELSE b
Max(a, b) == IF a > b THEN a ELSE b

\* The characters used by the model, in code-point order.
Alphabet ==
    <<".", "0", "1", "2", "3", "4", "5", "6", "7", "8", "9", "G", "T", "_",
      "a", "b", "c", "d", "e", "f", "g", "h", "i", "j", "k", "l", "m", "n",
      "o", "p", "q", "r", "s", "t", "u", "v", "w", "x", "y", "z">>

OrdTable ==
    [c \in {Alphabet[i] : i \in 1..Len(Alphabet)} |->
        CHOOSE i \in 1..Len(Alphabet) : Alphabet[i] = c]
Ord(c) == OrdTable[c]

\* str.lower() on the characters of the alphabet.
LowerChar(c) == IF c = "G" THEN "g" ELSE IF c = "T" THEN "t" ELSE c
Lower(s) == [i \in 1..Len(s) |-> LowerChar(s[i])]

\* Python's < on str: lexicographic by code point.
RECURSIVE StrLess(_, _)
StrLess(a, b) ==
    IF b = <<>> THEN FALSE
    ELSE IF a = <<>> THEN TRUE
    ELSE IF Ord(Head(a)) # Ord(Head(b)) THEN Ord(Head(a)) < Ord(Head(b))
    ELSE StrLess(Tail(a), Tail(b))

StartsWith(s, prefix) ==
    Len(s) >= Len(prefix) /\ SubSeq(s, 1, Len(prefix)) = prefix

\* sub in s
Contains(s, sub) ==
    \E i \in 1..(Len(s) - Len(sub) + 1) : SubSeq(s, i, i + Len(sub) - 1) = sub

\* s.replace(old, ""): every non-overlapping occurrence, left to right.
RECURSIVE Remove(_, _)
Remove(s, old) ==
    IF Len(s) < Len(old) THEN s
    ELSE IF SubSeq(s, 1, Len(old)) = old
         THEN Remove(SubSeq(s, Len(old) + 1, Len(s)), old)
         ELSE <<Head(s)>> \o Remove(Tail(s), old)

\* s.split(sep) for a one-character sep: always at least one token.
RECURSIVE SplitAcc(_, _, _, _)
SplitAcc(s, sep, cur, acc) ==
    IF s = <<>> THEN Append(acc, cur)
    ELSE IF Head(s) = sep THEN SplitAcc(Tail(s), sep, <<>>, Append(acc, cur))
    ELSE SplitAcc(Tail(s), sep, Append(cur, Head(s)), acc)
Split(s, sep) == SplitAcc(s, sep, <<>>, <<>>)

\* sep.join(parts)
RECURSIVE Join(_, _)
Join(parts, sep) ==
    IF parts = <<>> THEN <<>>
    ELSE IF Len(parts) = 1 THEN parts[1]
    ELSE parts[1] \o <<sep>> \o Join(Tail(parts), sep)

DigitChar(d) == Alphabet[d + 2]

\* str(n) for n >= 0
RECURSIVE Decimal(_)
Decimal(n) ==
    IF n < 10 THEN <<DigitChar(n)>>
    ELSE Decimal(n \div 10) \o <<DigitChar(n % 10)>>

\* f"{n:04d}": zero-padded to at least four digits.
RECURSIVE ZeroPad(_, _)
ZeroPad(s, width) == IF Len(s) >= width THEN s ELSE ZeroPad(<<"0">> \o s, width)
Format04d(n) == ZeroPad(Decimal(n), 4)

NiiGz == <<".", "n", "i", "i", ".", "g", "z">>
Nii == <<".", "n", "i", "i">>
LabelWord == <<"l", "a", "b", "e", "l">>
Positive == <<"p", "o", "s", "i", "t", "i", "v", "e">>
Negative == <<"n", "e", "g", "a", "t", "i", "v", "e">>
T1 == <<"T", "1">>
B1000 == <<"b", "1", "0", "0", "0">>
T1Post == <<"T", "1", "_", "p", "o", "s", "t">>
GT == <<"G", "T">>

-----------------------------------------------------------------------------
(* save_patch: the names of the files one patch is written to.             *)

PatchFileName(pid, mod, patch_type, patch_idx) ==
    pid \o <<"_">> \o mod \o <<"_">> \o patch_type \o <<"_">>
        \o Format04d(patch_idx) \o NiiGz

\* One file per modality and the label companion.
SavePatchNames(pid, patch_type, patch_idx, mods) ==
    {PatchFileName(pid, m, patch_type, patch_idx) : m \in mods}
        \cup {PatchFileName(pid, LabelWord, patch_type, patch_idx)}

\* The i-th case directory of the corpus: "p1", "p2", ...
CaseName(i) == <<"p">> \o Decimal(i)


-----------------------------------------------------------------------------
(* train_validate_dicts (src/ib_sampling/utils.py).                        *)

\* glob.glob(os.path.join(dir, "*.nii*")): the names that contain ".nii".
Glob(dir) == {f \in dir : Contains(f, Nii)}

\* The body of the loop over all_files: the patient ID a file name yields,
\* as a set with no or one element (a skipped file adds nothing).
ParsePatientId(filename) ==
    IF Contains(filename, LabelWord) THEN {}
    ELSE LET filename_no_ext == Remove(Remove(filename, NiiGz), Nii)
             parts == Split(filename_no_ext, "_")
         IN  IF Len(parts) < 4 THEN {}
             ELSE {Join(SubSeq(parts, 1, Len(parts) - 3), "_")}

\* patient_ids after the loop: a set.
PatientIdSet(all_files) == UNION {ParsePatientId(f) : f \in all_files}

\* list(patient_ids): a set is iterated in an order that depends on string
\* hashes and on the insertion order (that is, on the order glob listed the
\* files in); every enumeration of the set is possible.
RECURSIVE ListOrders(_)
ListOrders(S) ==
    IF S = {} THEN {<<>>}
    ELSE UNION {{<<x>> \o rest : rest \in ListOrders(S \ {x})} : x \in S}

\* sorted(list): insertion of each element into the sorted prefix.
RECURSIVE InsertSorted(_, _)
InsertSorted(x, sortedSeq) ==
    IF sortedSeq = <<>> THEN <<x>>
    ELSE IF StrLess(x, Head(sortedSeq)) THEN <<x>> \o sortedSeq
    ELSE <<Head(sortedSeq)>> \o InsertSorted(x, Tail(sortedSeq))

RECURSIVE SortFrom(_, _)
SortFrom(list, acc) ==
    IF list = <<>> THEN acc ELSE SortFrom(Tail(list), InsertSorted(Head(list), acc))

UnsortedMutant(list) == list
Sorted(list) == SortFrom(list, <<>>)

\* The low 16 bits of the first outputs of MT19937 after np.random.seed(42)
\* (init_genrand(42)); a shuffle of fewer than 65536 elements reads no
\* higher bit.
Seed42Low16 ==
    <<56422, 15795, 860, 38158, 62570, 54343, 44732, 11284, 54886, 6265,
      16850, 62678, 37194, 21962, 47191, 60788, 44131, 60263, 16023, 41090,
      1685, 64820, 769, 59735, 62955, 64925, 56101, 2433, 5311, 37819,
      39188, 17568, 53707, 19769, 28693, 6396, 62187, 27480, 65072, 41434,
      25658, 18942, 57001, 18431, 64987, 2747, 58319, 59150>>

\* np.random.seed(42): the generator restarts its output sequence.
Seed42(r) == 0

\* The smallest 2^k - 1 that is >= max.
RECURSIVE MaskFrom(_, _)
MaskFrom(mask, max) == IF mask >= max THEN mask ELSE MaskFrom(2 * mask + 1, max)

\* random_interval(max): masked rejection sampling of a value in 0..max;
\* returns <<value, generator position>>.
RECURSIVE RandomInterval(_, _)
RandomInterval(pos, max) ==
    IF max = 0 THEN <<0, pos>>
    ELSE LET value == Seed42Low16[pos + 1] % (MaskFrom(0, max) + 1)
         IN  IF value <= max THEN <<value, pos + 1>>
             ELSE RandomInterval(pos + 1, max)

Swap(x, i, j) == [x EXCEPT ![i] = x[j], ![j] = x[i]]

\* np.random.shuffle(x): for i in reversed(range(1, n)):
\*     j = random_interval(i); x[i], x[j] = x[j], x[i]
RECURSIVE ShuffleFrom(_, _, _)
ShuffleFrom(x, i, pos) ==
    IF i < 2 THEN [list |-> x, rng |-> pos]
    ELSE LET draw == RandomInterval(pos, i - 1)
         IN  ShuffleFrom(Swap(x, i, draw[1] + 1), i - 1, draw[2])

Shuffle(x, pos) == ShuffleFrom(x, Len(x), pos)

\* folds = [patient_ids[i : i + num_val_patients]
\*          for i in range(0, num_patients, num_val_patients)]
Chunks(patient_ids, num_val_patients) ==
    LET num_patients == Len(patient_ids)
    IN  [k \in 1..((num_patients + num_val_patients - 1) \div num_val_patients) |->
            SubSeq(patient_ids, (k - 1) * num_val_patients + 1,
                   Min(k * num_val_patients, num_patients))]

\* if len(folds) > max_splits: folds[-2].extend(folds[-1]); folds.pop()
DropTailMutant(folds, max_splits) ==
    IF Len(folds) > max_splits THEN SubSeq(folds, 1, Len(folds) - 1) ELSE folds
MergeTail(folds, max_splits) ==
    IF Len(folds) > max_splits
    THEN [k \in 1..(Len(folds) - 1) |->
            IF k = Len(folds) - 1 THEN folds[k] \o folds[k + 1] ELSE folds[k]]
    ELSE folds

\* Lines 52-59: the folds of the shuffled ID list.
Folds(patient_ids, max_splits) ==
    LET num_patients == Len(patient_ids)
        num_val_patients == Max(1, num_patients \div max_splits)
    IN  MergeTail(Chunks(patient_ids, num_val_patients), max_splits)

\* concatenation of the folds other than fold number skip, in fold order
RECURSIVE ConcatExcept(_, _, _)
ConcatExcept(folds, k, skip) ==
    IF k > Len(folds) THEN <<>>
    ELSE (IF k = skip THEN <<>> ELSE folds[k]) \o ConcatExcept(folds, k + 1, skip)

\* val_fold_index = (args.split - 1) % len(folds), 0-based
NoWrapMutant(split, num_folds) == Max(0, Min(split - 1, num_folds - 1))
ValFoldIndex(split, num_folds) == (split - 1) % num_folds

\* Lines 61-68: the outcome of one call, given the folds.  With no fold the
\* modulo by len(folds) raises ZeroDivisionError and nothing is returned.
\* listed_in_order records whether the set happened to be enumerated in
\* sorted order in this call.
SelectFold(folds, split, sorted_ids, listed) ==
    IF Len(folds) = 0
    THEN [status |-> "ZeroDivisionError", split |-> split,
          listed_in_order |-> (listed = sorted_ids),
          patient_ids |-> sorted_ids, folds |-> folds,
          train |-> <<>>, val |-> <<>>]
    ELSE LET val_fold_index == ValFoldIndex(split, Len(folds))
         IN  [status |-> "returned", split |-> split,
              listed_in_order |-> (listed = sorted_ids),
              patient_ids |-> sorted_ids, folds |-> folds,
              train |-> ConcatExcept(folds, 1, val_fold_index + 1),
              val |-> folds[val_fold_index + 1]]

SplitIndices == (-1)..MaxSplitIndex
SplitCounts == 1..MaxSplits

\* One call of train_validate_dicts(data_dir, args).  (A value bound by
\* \E x \in {e} is computed once.)
TrainValidateDicts ==
    /\ Len(runs) < 2
    /\ \E id_set \in {PatientIdSet(Glob(lesion_files) \cup Glob(background_files))} :
       \E listed \in ListOrders(id_set) :
       \E sorted_ids \in {Sorted(listed)} :
       \E shuffled \in {Shuffle(sorted_ids, Seed42(rng))} :
       \E folds \in {Folds(shuffled.list, args_max_splits)} :
       \E split \in SplitIndices :
         /\ rng' = shuffled.rng
         /\ runs' = Append(runs, SelectFold(folds, split, sorted_ids, listed))
    /\ UNCHANGED <<lesion_files, background_files, produced, args_max_splits,
                   pureVars, caseVars>>

\* modalities_filter: None, or a list of names
NoFilter == [is_none |-> TRUE, names |-> {}]
Filter(names) == [is_none |-> FALSE, names |-> names]

\* The state of the variables that belong to the other operations.
PureIdle == es_in = <<>> /\ es_out = <<>> /\ gi_in = <<>> /\ gi_out = <<>>
CaseIdle ==
    /\ pc = "idle" /\ case_listing = {} /\ modalities_filter = NoFilter
    /\ modalities = {} /\ shape = <<0, 0, 0>> /\ label = {}
    /\ patch_size = <<0, 0, 0>> /\ stride = <<0, 0, 0>>
    /\ comp = 0 /\ win = <<0, 0, 0>> /\ pos_idx = 0 /\ neg_idx = 0
    /\ patches = <<>>
SplitIdle ==
    /\ lesion_files = {} /\ background_files = {} /\ produced = {}
    /\ rng = 0 /\ args_max_splits = 0 /\ runs = <<>>

\* The patch files prepare_dataset leaves for the cases "p1".."pn": one patch
\* of modality T1 (and its label companion) per case.
Corpus(n, patch_type) ==
    UNION {SavePatchNames(CaseName(i), patch_type, 0, {T1}) : i \in 1..n}

\* Every case yields a positive patch; the first one a negative patch too.
InitSplit ==
    /\ \E n \in 0..MaxPatients :
         /\ lesion_files = Corpus(n, Positive)
         /\ background_files = Corpus(Min(n, 1), Negative)
         /\ produced = {CaseName(i) : i \in 1..n}
    /\ rng \in 0..MaxPriorDraws
    /\ args_max_splits \in SplitCounts
    /\ runs = <<>>
    /\ PureIdle /\ CaseIdle

NextSplit == TrainValidateDicts

SpecSplit == InitSplit /\ [][NextSplit]_vars

-----------------------------------------------------------------------------
(* Naming round trip: save_patch writes the corpus that                    *)
(* train_validate_dicts later parses.                                      *)

CaseDirNames == {CaseName(1), <<"p", "_", "2">>}
ModalityDicts == {{T1}, {T1, B1000}, {T1Post}}
PatchTypes == {Positive, Negative}

\* save_patch(pid, patch_type, patch_idx, modalities, label, out_dir, affine)
\* as process_case calls it: positive patches go to lesion_patches, negative
\* ones to background_patches.
SavePatch(pid, patch_type, patch_idx, mods) ==
    /\ lesion_files' =
         IF patch_type = Positive
         THEN lesion_files \cup SavePatchNames(pid, patch_type, patch_idx, mods)
         ELSE lesion_files
    /\ background_files' =
         IF patch_type = Negative
         THEN background_files \cup SavePatchNames(pid, patch_type, patch_idx, mods)
         ELSE background_files
    /\ produced' = produced \cup {pid}

\* prepare_dataset writes one more patch of some case (before any training
\* run reads the corpus).
WritePatch ==
    /\ runs = <<>>
    /\ Cardinality(lesion_files) + Cardinality(background_files) < MaxCorpusFiles
    /\ \E pid \in CaseDirNames, patch_type \in PatchTypes,
          patch_idx \in 0..MaxPatchIndex, mods \in ModalityDicts :
            SavePatch(pid, patch_type, patch_idx, mods)
    /\ UNCHANGED <<rng, args_max_splits, runs, pureVars, caseVars>>

InitName ==
    /\ lesion_files = {} /\ background_files = {} /\ produced = {}
    /\ rng = 0
    /\ args_max_splits \in SplitCounts
    /\ runs = <<>>
    /\ PureIdle /\ CaseIdle

NextName == WritePatch \/ TrainValidateDicts

SpecName == InitName /\ [][NextName]_vars

-----------------------------------------------------------------------------
(* ensure_size and generate_indices (src/prepare_dataset.py).              *)

\* ensure_size without the re-anchoring of a clamped interval.
ensure_size_no_reanchor(start, end, min_size, max_dim) ==
    LET size == end - start
        extra == min_size - size
    IN  IF size >= min_size THEN <<start, end>>
        ELSE <<Max(0, start - extra \div 2),
               Min(max_dim, end + extra - extra \div 2)>>

ensure_size(start, end, min_size, max_dim) ==
    LET size == end - start
        extra == min_size - size
        start1 == Max(0, start - extra \div 2)
        end1 == Min(max_dim, end + extra - extra \div 2)
    IN  IF size >= min_size THEN <<start, end>>
        ELSE IF end1 - start1 < min_size
             THEN IF start1 = 0
                  THEN <<start1, Min(max_dim, start1 + min_size)>>
                  ELSE <<Max(0, end1 - min_size), end1>>
             ELSE <<start1, end1>>

\* list(range(0, stop, step)) for step >= 1
RangeList(stop, step) ==
    [i \in 1..((stop + step - 1) \div step) |-> (i - 1) * step]

\* generate_indices without the final start dim - patch.
generate_indices_no_tail(dim, patch, stride_) ==
    IF dim <= patch THEN <<0>> ELSE RangeList(dim - patch + 1, stride_)

generate_indices(dim, patch, stride_) ==
    IF dim <= patch THEN <<0>>
    ELSE LET starts == RangeList(dim - patch + 1, stride_)
         IN  IF starts[Len(starts)] # dim - patch
             THEN Append(starts, dim - patch)
             ELSE starts

EnsureSizeCall ==
    /\ es_in # <<>> /\ es_out = <<>>
    /\ es_out' = ensure_size(es_in[1], es_in[2], es_in[3], es_in[4])
    /\ UNCHANGED <<es_in, gi_in, gi_out, splitVars, caseVars>>

GenerateIndicesCall ==
    /\ gi_in # <<>> /\ gi_out = <<>>
    /\ gi_out' = generate_indices(gi_in[1], gi_in[2], gi_in[3])
    /\ UNCHANGED <<gi_in, es_in, es_out, splitVars, caseVars>>

\* ensure_size is called with 0 <= start < end <= max_dim (process_case
\* passes a clamped, non-empty interval).
InitEnsure ==
    /\ \E max_dim \in 1..MaxDim, min_size \in 1..MaxMinSize :
       \E start \in 0..(max_dim - 1) :
       \E end \in (start + 1)..max_dim :
           es_in = <<start, end, min_size, max_dim>>
    /\ es_out = <<>> /\ gi_in = <<>> /\ gi_out = <<>>
    /\ SplitIdle /\ CaseIdle

NextEnsure == EnsureSizeCall

SpecEnsure == InitEnsure /\ [][NextEnsure]_vars

InitIndices ==
    /\ \E dim \in 1..MaxDim, patch \in 1..MaxDim, stride_ \in 1..MaxStride :
           gi_in = <<dim, patch, stride_>>
    /\ gi_out = <<>> /\ es_in = <<>> /\ es_out = <<>>
    /\ SplitIdle /\ CaseIdle

NextIndices == GenerateIndicesCall

SpecIndices == InitIndices /\ [][NextIndices]_vars

-----------------------------------------------------------------------------
(* process_case (src/prepare_dataset.py).  The label volume is the set of  *)
(* its non-zero voxels <<z, y, x, value>>; modality intensities do not     *)
(* influence which patches are cut and are not modelled.                   *)

PAD == 10

GtFile == GT \o NiiGz
T1File == T1 \o NiiGz
B1000File == B1000 \o Nii
CasePid == CaseName(1)

\* Lines 92-101: the modality names found in case_dir.
DiscoverModalities(listing, filter) ==
    {Remove(Remove(f, NiiGz), Nii) :
        f \in {g \in Glob(listing) :
                 /\ ~StartsWith(Lower(g), <<"g", "t">>)
                 /\ \/ filter.is_none
                    \/ Remove(Remove(g, NiiGz), Nii) \in filter.names}}

\* gt_path is not None
DiscoverGt(listing) == \E g \in Glob(listing) : StartsWith(Lower(g), <<"g", "t">>)

Position(t) == <<t[1], t[2], t[3]>>

\* label > 0
PositiveVoxels(lab) == {Position(t) : t \in {u \in lab : u[4] > 0}}

Abs(n) == IF n < 0 THEN -n ELSE n

\* ndi.label's default structuring element: voxels sharing a face.
Adjacent(a, b) == Abs(a[1] - b[1]) + Abs(a[2] - b[2]) + Abs(a[3] - b[3]) = 1

RECURSIVE Reach(_, _)
Reach(component, mask) ==
    LET more == {v \in mask \ component : \E c \in component : Adjacent(v, c)}
    IN  IF more = {} THEN component ELSE Reach(component \cup more, mask)

\* C order of the voxels: axis 0 outermost.
RasterLess(a, b) ==
    \/ a[1] < b[1]
    \/ a[1] = b[1] /\ a[2] < b[2]
    \/ a[1] = b[1] /\ a[2] = b[2] /\ a[3] < b[3]

\* labeled, num = ndi.label(mask): the components, numbered in the order
\* the scan of the volume meets them; labeled[k] is the mask labeled == k.
RECURSIVE LabelComponents(_)
LabelComponents(mask) ==
    IF mask = {} THEN <<>>
    ELSE LET first == CHOOSE v \in mask : \A w \in mask \ {v} : RasterLess(v, w)
             component == Reach({first}, mask)
         IN  <<component>> \o LabelComponents(mask \ component)

SetMin(S) == CHOOSE m \in S : \A n \in S : m <= n
SetMax(S) == CHOOSE m \in S : \A n \in S : m >= n

\* Lines 128-134 on one axis: pad the inclusive span [cmin, cmax] and clamp.
PaddedIntervalLowEnd(cmin, cmax, extent) ==
    <<Max(cmin - PAD, 0), Min(cmax + PAD, extent)>>

PaddedInterval(cmin, cmax, extent) ==
    <<Max(cmin - PAD, 0), Min(cmax + PAD + 1, extent)>>

\* Lines 124-140: the slices of the positive patch of one component.
ComponentSlices(component, shp, psize) ==
    [a \in 1..3 |->
        LET coords == {v[a] : v \in component}
            padded == PaddedInterval(SetMin(coords), SetMax(coords), shp[a])
        IN  ensure_size(padded[1], padded[2], psize[a], shp[a])]

InSlices(v, slices) ==
    \A a \in 1..3 : slices[a][1] <= v[a] /\ v[a] < slices[a][2]

\* np.all(label_patch > 0) in place of np.any
AllPositiveMutant(lab, slices) ==
    \A z \in slices[1][1]..(Min(slices[1][2], shape[1]) - 1),
       y \in slices[2][1]..(Min(slices[2][2], shape[2]) - 1),
       x \in slices[3][1]..(Min(slices[3][2], shape[3]) - 1) :
        <<z, y, x>> \in PositiveVoxels(lab)

\* np.any(label_patch > 0) for label_patch = label[slices]
AnyPositive(lab, slices) ==
    \E t \in lab : t[4] > 0 /\ InSlices(Position(t), slices)

\* The start lists of the three axes.
Starts(shp, psize, strd) ==
    [a \in 1..3 |-> generate_indices(shp[a], psize[a], strd[a])]

\* Lines 154-155: the slices of the window at position w of the loops.
WindowSlices(starts, w, psize) ==
    [a \in 1..3 |-> <<starts[a][w[a]], starts[a][w[a]] + psize[a]>>]

\* The position after w in the nested loops (x innermost), or <<0, 0, 0>>
\* after the last one.
NextWindow(starts, w) ==
    IF w[3] < Len(starts[3]) THEN <<w[1], w[2], w[3] + 1>>
    ELSE IF w[2] < Len(starts[2]) THEN <<w[1], w[2] + 1, 1>>
    ELSE IF w[1] < Len(starts[1]) THEN <<w[1] + 1, 1, 1>>
    ELSE <<0, 0, 0>>

PatchRecord(patch_type, patch_idx, slices) ==
    [patch_type |-> patch_type, patch_idx |-> patch_idx, slices |-> slices]

\* Lines 86-121: find the volumes, skip the case if the label or every
\* modality is missing, else load them and label the components.
Discover ==
    /\ pc = "DISCOVER"
    /\ LET mods == DiscoverModalities(case_listing, modalities_filter)
       IN  IF ~DiscoverGt(case_listing) \/ mods = {}
           THEN pc' = "SKIP" /\ modalities' = {}
           ELSE /\ modalities' = mods
                /\ pc' = IF LabelComponents(PositiveVoxels(label)) # <<>>
                         THEN "EXTRACT_POSITIVE" ELSE "EXTRACT_NEGATIVE"
    /\ UNCHANGED <<case_listing, modalities_filter, shape, label, patch_size,
                   stride, comp, win, pos_idx, neg_idx, patches,
                   splitVars, pureVars>>

\* Lines 123-144: one iteration of the loop over the components.
PositivePatch ==
    /\ pc = "EXTRACT_POSITIVE"
    /\ LET labeled == LabelComponents(PositiveVoxels(label))
           slices == ComponentSlices(labeled[comp], shape, patch_size)
       IN  /\ patches' = Append(patches, PatchRecord(Positive, pos_idx, slices))
           /\ lesion_files' = lesion_files
                \cup SavePatchNames(CasePid, Positive, pos_idx, modalities)
           /\ produced' = produced \cup {CasePid}
           /\ pos_idx' = pos_idx + 1
           /\ comp' = comp + 1
           /\ pc' = IF comp < Len(labeled) THEN "EXTRACT_POSITIVE"
                    ELSE "EXTRACT_NEGATIVE"
    /\ UNCHANGED <<case_listing, modalities_filter, modalities, shape, label,
                   patch_size, stride, win, neg_idx, background_files,
                   rng, args_max_splits, runs, pureVars>>

\* Lines 151-161: one iteration of the innermost loop over the windows.
NegativeWindow ==
    /\ pc = "EXTRACT_NEGATIVE"
    /\ LET starts == Starts(shape, patch_size, stride)
           slices == WindowSlices(starts, win, patch_size)
       IN  /\ \/ /\ AnyPositive(label, slices)
                 /\ UNCHANGED <<patches, background_files, produced, neg_idx>>
              \/ /\ ~AnyPositive(label, slices)
                 /\ patches' = Append(patches, PatchRecord(Negative, neg_idx, slices))
                 /\ background_files' = background_files
                      \cup SavePatchNames(CasePid, Negative, neg_idx, modalities)
                 /\ produced' = produced \cup {CasePid}
                 /\ neg_idx' = neg_idx + 1
           /\ win' = NextWindow(starts, win)
           /\ pc' = IF NextWindow(starts, win) = <<0, 0, 0>> THEN "DONE"
                    ELSE "EXTRACT_NEGATIVE"
    /\ UNCHANGED <<case_listing, modalities_filter, modalities, shape, label,
                   patch_size, stride, comp, pos_idx, lesion_files,
                   rng, args_max_splits, runs, pureVars>>

\* Label volumes: up to MaxLesionVoxels non-zero voxels, of value 1 or -1,
\* at the near end, past the padding and at the far end of axis 0.
CandidateVoxels(shp) ==
    {<<z, y, x, v>> : z \in {0, 1, PAD + 1, PAD + 2, MaxExtent - 1} \cap 0..(shp[1] - 1),
                      y \in 0..(shp[2] - 1), x \in 0..(shp[3] - 1), v \in {-1, 1}}

RECURSIVE LabelsUpTo(_, _)
LabelsUpTo(n, shp) ==
    IF n = 0 THEN {{}}
    ELSE LET smaller == LabelsUpTo(n - 1, shp)
         IN  smaller \cup
             UNION {{lab \cup {t} :
                       t \in {u \in CandidateVoxels(shp) :
                                \A w \in lab : Position(w) # Position(u)}} :
                    lab \in smaller}

Shapes == {<<MaxExtent, 2, 1>>, <<3, 2, 2>>}
PatchSizes == {<<8, 1, 1>>, <<MaxExtent - 2, 2, 1>>, <<MaxExtent + 6, 2, 2>>}
Strides == {<<4, 1, 1>>, <<16, 2, 1>>}

InitCase ==
    /\ pc = "DISCOVER"
    /\ modalities = {} /\ comp = 1 /\ win = <<1, 1, 1>>
    /\ pos_idx = 0 /\ neg_idx = 0 /\ patches = <<>>
    /\ \/ /\ case_listing = {GtFile, T1File}
          /\ modalities_filter = NoFilter
          /\ shape \in Shapes
          /\ label \in LabelsUpTo(MaxLesionVoxels, shape)
          /\ patch_size \in PatchSizes
          /\ stride \in Strides
       \/ /\ case_listing \in {{T1File}, {GtFile}, {GtFile, T1File, B1000File}}
          /\ modalities_filter \in {NoFilter, Filter({B1000}), Filter({T1Post})}
          /\ shape = <<3, 2, 2>>
          /\ label = {<<1, 0, 0, 1>>}
          /\ patch_size = <<2, 2, 2>>
          /\ stride = <<1, 1, 1>>
    /\ SplitIdle /\ PureIdle

NextCase == Discover \/ PositivePatch \/ NegativeWindow

SpecCase == InitCase /\ [][NextCase]_vars

-----------------------------------------------------------------------------
(* Properties of train_validate_dicts, under SpecSplit.                    *)

Range(seq) == {seq[i] : i \in 1..Len(seq)}
NoDuplicates(seq) == \A i, j \in 1..Len(seq) : i # j => seq[i] # seq[j]

RECURSIVE Flatten(_)
Flatten(folds) == IF folds = <<>> THEN <<>> ELSE Head(folds) \o Flatten(Tail(folds))

Returned(r) == r.status = "returned"
InputIds == PatientIdSet(Glob(lesion_files) \cup Glob(background_files))

\* C1: after chunking and the tail merge, the number of folds never exceeds
\* max_splits.
C1_FoldCountBounded ==
    \A i \in 1..Len(runs) :
        Returned(runs[i]) => Len(runs[i].folds) <= args_max_splits

\* C2: the folds are pairwise disjoint and their union is the input ID set;
\* the train and validation lists share no ID, hold no ID twice, and together
\* hold exactly the input IDs.
C2_FoldsPartition ==
    \A i \in 1..Len(runs) :
        LET r == runs[i]
        IN  Returned(r) =>
              /\ NoDuplicates(Flatten(r.folds))
              /\ Range(Flatten(r.folds)) = InputIds
              /\ Range(r.train) \cap Range(r.val) = {}
              /\ NoDuplicates(r.train \o r.val)
              /\ Range(r.train) \cup Range(r.val) = InputIds

\* A call that returned after the tail merge was applied to several folds.
C2_Witness ==
    \E i \in 1..Len(runs) :
        LET r == runs[i]
            n == Len(r.patient_ids)
        IN  /\ Returned(r)
            /\ Len(r.folds) >= 2
            /\ Len(Chunks(r.patient_ids, Max(1, n \div args_max_splits)))
                 > args_max_splits
            /\ r.train # <<>>

\* C3: with no patient ID in the corpus the call raises nothing and returns
\* two empty lists.
C3_EmptyCorpusReturnsEmpty ==
    \A i \in 1..Len(runs) :
        runs[i].patient_ids = <<>> =>
            /\ Returned(runs[i])
            /\ runs[i].train = <<>>
            /\ runs[i].val = <<>>

\* C8: two calls over the same files with the same fold index and max_splits
\* give the same train and validation lists, whatever the order the files
\* and the ID set were enumerated in and whatever the generator's state.
C8_Deterministic ==
    \A i, j \in 1..Len(runs) :
        runs[i].split = runs[j].split =>
            /\ runs[i].status = runs[j].status
            /\ runs[i].train = runs[j].train
            /\ runs[i].val = runs[j].val

\* Two calls in one process with the same arguments, the IDs enumerated in
\* sorted order in one and in another order in the other, the second one
\* starting from a generator the first one has advanced.
C8_Witness ==
    /\ Len(runs) = 2
    /\ Returned(runs[1]) /\ Returned(runs[2])
    /\ runs[1].split = runs[2].split
    /\ runs[1].listed_in_order # runs[2].listed_in_order
    /\ Len(runs[1].patient_ids) >= 3
    /\ Len(runs[1].folds) >= 2
    /\ rng > 0

\* C10: with K folds, every validation list is non-empty and is one of the
\* folds; fold indices congruent modulo K give the same result and fold
\* indices that are not congruent give disjoint validation lists, so that
\* over the fold indices 1..K every patient ID is validated exactly once.
C10_CrossValidationCoverage ==
    \A i, j \in 1..Len(runs) :
        LET r == runs[i]
            q == runs[j]
            K == Len(r.folds)
        IN  (Returned(r) /\ Returned(q)) =>
              /\ r.val # <<>>
              /\ \E k \in 1..K : r.val = r.folds[k]
              /\ \A id \in InputIds : id \in Range(r.val) \cup Range(r.train)
              /\ q.folds = r.folds
              /\ (r.split - q.split) % K = 0 => (r.val = q.val /\ r.train = q.train)
              /\ (r.split - q.split) % K # 0 => Range(r.val) \cap Range(q.val) = {}

\* A fold index outside 1..K wraps to the congruent index inside 1..K.
C10_Witness ==
    /\ Len(runs) = 2
    /\ Returned(runs[1]) /\ Returned(runs[2])
    /\ Len(runs[1].folds) >= 3
    /\ runs[1].split \notin 1..Len(runs[1].folds)
    /\ runs[2].split \in 1..Len(runs[1].folds)
    /\ (runs[1].split - runs[2].split) % Len(runs[1].folds) = 0
    /\ runs[1].val = runs[2].val

-----------------------------------------------------------------------------
(* Naming round trip, under SpecName.                                      *)

\* C9: the patient IDs the splitter derives from the file names are exactly
\* the case names that produced a patch.
C9_PatientIdsRoundTrip ==
    \A i \in 1..Len(runs) : Range(runs[i].patient_ids) = produced

-----------------------------------------------------------------------------
(* ensure_size, under SpecEnsure.                                          *)

\* C5: for 0 <= start < end <= max_dim the returned interval lies in
\* [0, max_dim] and, if min_size <= max_dim, is at least min_size long and
\* contains [start, end); if max_dim < min_size it is exactly (0, max_dim).
C5_EnsureSize ==
    es_out # <<>> =>
        LET start == es_in[1]
            end == es_in[2]
            min_size == es_in[3]
            max_dim == es_in[4]
            s == es_out[1]
            e == es_out[2]
        IN  IF min_size <= max_dim
            THEN /\ e - s >= min_size
                 /\ 0 <= s /\ e <= max_dim
                 /\ s <= start /\ end <= e
            ELSE es_out = <<0, max_dim>>

\* An interval that the even expansion leaves short against the far boundary
\* and that is re-anchored there.
C5_Witness ==
    /\ es_out # <<>>
    /\ es_in[3] <= es_in[4]
    /\ es_in[2] - es_in[1] < es_in[3]
    /\ es_out # ensure_size_no_reanchor(es_in[1], es_in[2], es_in[3], es_in[4])
    /\ es_out[1] > 0
    /\ es_out[2] = es_in[4]

-----------------------------------------------------------------------------
(* generate_indices, under SpecIndices.                                    *)

Last(seq) == seq[Len(seq)]
Covered(starts, patch) ==
    UNION {s..(s + patch - 1) : s \in Range(starts)}

-----------------------------------------------------------------------------
(* process_case, under SpecCase.                                           *)

AllWindows ==
    LET starts == Starts(shape, patch_size, stride)
    IN  {<<i, j, k>> : i \in 1..Len(starts[1]), j \in 1..Len(starts[2]),
                       k \in 1..Len(starts[3])}

\* The windows the loops have been through.
VisitedWindows ==
    IF pc = "DONE" THEN AllWindows
    ELSE IF pc = "EXTRACT_NEGATIVE" THEN {w \in AllWindows : RasterLess(w, win)}
    ELSE {}

SlicesOf(w) == WindowSlices(Starts(shape, patch_size, stride), w, patch_size)

PersistedNegative(slices) ==
    \E i \in 1..Len(patches) :
        patches[i].patch_type = Negative /\ patches[i].slices = slices

\* C6 as stated: a window is persisted as a negative patch iff no voxel of
\* the label inside it is non-zero, so the label sub-volume of every
\* negative patch is entirely zero.
C6_NegativeIffAllZero ==
    /\ \A w \in VisitedWindows :
         PersistedNegative(SlicesOf(w)) <=>
            ~\E t \in label : t[4] # 0 /\ InSlices(Position(t), SlicesOf(w))
    /\ \A i \in 1..Len(patches) :
         patches[i].patch_type = Negative =>
            ~\E t \in label : t[4] # 0 /\ InSlices(Position(t), patches[i].slices)

\* C6 amended: a window is persisted as a negative patch iff no voxel of
\* the label inside it is greater than zero, so the label sub-volume of
\* every negative patch holds no positive voxel (it may hold negative ones).
C6_NegativeIffNoPositive ==
    /\ \A w \in AllWindows :
         PersistedNegative(SlicesOf(w)) <=>
            /\ w \in VisitedWindows
            /\ ~\E t \in label : t[4] > 0 /\ InSlices(Position(t), SlicesOf(w))
    /\ \A i \in 1..Len(patches) :
         patches[i].patch_type = Negative =>
            ~\E t \in label : t[4] > 0 /\ InSlices(Position(t), patches[i].slices)

\* A finished case with a rejected window and a persisted one.
C6_Witness ==
    /\ pc = "DONE"
    /\ \E w \in AllWindows : ~PersistedNegative(SlicesOf(w))
    /\ \E w \in AllWindows : PersistedNegative(SlicesOf(w))
    /\ Cardinality(AllWindows) >= 4

\* C7: the box of positive patch k-1 lies inside the volume and contains
\* component k padded by 10 voxels per side, clamped to the volume: on every
\* axis 0 <= s <= max(cmin - 10, 0) and min(cmax + 11, E) <= e <= E.
C7_PositiveBoxContainsPaddedComponent ==
    \A i \in 1..Len(patches) :
        patches[i].patch_type = Positive =>
            LET labeled == LabelComponents(PositiveVoxels(label))
                k == patches[i].patch_idx + 1
            IN  /\ k \in 1..Len(labeled)
                /\ \A a \in 1..3 :
                     LET coords == {v[a] : v \in labeled[k]}
                         cmin == SetMin(coords)
                         cmax == SetMax(coords)
                         s == patches[i].slices[a][1]
                         e == patches[i].slices[a][2]
                     IN  /\ 0 <= s /\ s <= Max(cmin - 10, 0)
                         /\ Min(cmax + 11, shape[a]) <= e /\ e <= shape[a]

\* Two components, the second one far enough from both ends of axis 0 for
\* the padding not to be clamped.
C7_Witness ==
    /\ Len(LabelComponents(PositiveVoxels(label))) = 2
    /\ \E i \in 1..Len(patches) :
         /\ patches[i].patch_type = Positive
         /\ patches[i].patch_idx = 1
         /\ LET coords == {v[1] : v \in LabelComponents(PositiveVoxels(label))[2]}
            IN  /\ SetMin(coords) - 10 > 0
                /\ SetMax(coords) + 11 < shape[1]
                /\ patches[i].slices[1] = <<SetMin(coords) - 10, SetMax(coords) + 11>>

=============================================================================
